---------------------------- MODULE Spec2Model ----------------------------
(***************************************************************************)
(* Monte-Carlo-Simulation: MonteCarloSim.py.                               *)
(*                                                                         *)
(* The class Returns (n-days overlapping returns and their percentile),    *)
(* simulate_monte_carlo, the three procedures of check_monte_carlo_trials  *)
(* and the module-level script, as one state machine.  A behaviour is one  *)
(* call of one entry point, from the call to its return or to the          *)
(* exception that leaves it.                                               *)
(*                                                                         *)
(* Numbers.  Returns are integers and the arithmetic on them is exact: the *)
(* rounding of floating-point operations is not modelled.  A percentile is *)
(* kept in units of 1/PercentileDen, a mean                                *)
(* as an unreduced fraction.  The Kolmogorov-Smirnov statistic, the        *)
(* p-value and the two thresholds are kept in halves (2 is 1.0), which is  *)
(* the finest unit in which the initial statistic 10e8 is still a 32-bit   *)
(* integer.                                                                *)
(***************************************************************************)
EXTENDS Integers, Sequences, FiniteSets, TLC

VARIABLES
    method,              \* the entry point called
    num_observations,    \* argument
    ndays,               \* argument
    trials_arg,          \* argument `trials` of simulate_monte_carlo
    significance_level,  \* argument of check_monte_carlo_trials, in halves
    discrepancy,         \* argument of check_monte_carlo_trials, in halves
    pc,                  \* position in the called function
    returns,             \* the Returns object: <<>> before it is constructed
    stream,              \* every value levy_stable.rvs has produced so far
    calls,               \* the number of get_percentile calls made so far
    returns_1day,        \* local of the last generate_ndays_returns call
    returns_ndays,       \* local of the last generate_ndays_returns call
    i,                   \* loop variable of `for i in range(...)`
    percentiles,         \* simulate_monte_carlo, monitoring, test_statistic
    samples,             \* CLT
    percentile,          \* CLT: the inner list
    mean,                \* CLT
    std,                 \* CLT (as variances, see np_var)
    trial,               \* monitoring
    mean_perc,           \* monitoring
    trials_list,         \* monitoring: the list `trials`
    trials,              \* test_statistic: the counter `trials`
    p_value,             \* test_statistic, in halves
    statistic,           \* test_statistic, in halves
    p_list1,             \* test_statistic
    p_list2,             \* test_statistic
    plt,                 \* the calls made on matplotlib.pyplot, in order
    stdout,              \* the lines printed, in order
    result,              \* the returned tuple: <<>> before the return
    exc                  \* the exception that left the call: "" when none

inputs == <<method, num_observations, ndays, trials_arg, significance_level,
            discrepancy>>
retVars == <<stream, calls, returns_1day, returns_ndays>>
cltVars == <<samples, percentile, mean, std>>
monVars == <<trial, mean_perc, trials_list>>
tsVars == <<trials, p_value, statistic, p_list1, p_list2>>
vars == <<inputs, pc, returns, retVars, i, percentiles, cltVars, monVars,
          tsVars, plt, stdout, result, exc>>

(***************************************************************************)
(* Bounds of the model.                                                    *)
(***************************************************************************)
\* num_observations ranges over 0..MaxObs
MaxObs == 3
\* ndays ranges over -MinusNdays..MaxNdays
MinusNdays == 1
MaxNdays == 4
\* the argument trials of simulate_monte_carlo ranges over -1..MaxSimTrials
MaxSimTrials == 2
\* the code's MAX_SAMPLES = 100 (line 117) and MAX_TRIALS = 15000 (line 116)
MAX_SAMPLES == 2
CLT_MAX_TRIALS == 2
\* the code's MAX_TRIALS = 30000 (line 139)
MON_MAX_TRIALS == 3
\* the code's batch size 100 (line 166) and hard cap 200000 (line 175)
BATCH == 2
MAX_TRIALS_CAP == 4

(***************************************************************************)
(* Program constants.                                                      *)
(***************************************************************************)
\* q_value = 0.01 is handed to np.percentile as a percentage: the fraction
\* 0.01 / 100 = 1 / 10000 of the way through the sorted series.
PercentileDen == 10000
\* statistic = 10e8, in halves
STATISTIC_INIT == 2000000000
\* p_value = 0
P_VALUE_INIT == 0

(***************************************************************************)
(* Numbers that may be NaN.                                                *)
(***************************************************************************)
Num(n) == [nan |-> FALSE, v |-> n]
NaN == [nan |-> TRUE, v |-> 0]
Frac(n, d) == [nan |-> FALSE, num |-> n, den |-> d]
FracNaN == [nan |-> TRUE, num |-> 0, den |-> 1]

Max(a, b) == IF a >= b THEN a ELSE b
Min(a, b) == IF a <= b THEN a ELSE b

(***************************************************************************)
(* Python and numpy primitives.                                            *)
(***************************************************************************)
\* a[start:stop] of a Python sequence (0-based, negative indices from the end)
PySlice(a, start, stop) ==
    LET n == Len(a)
        s == IF start < 0 THEN Max(start + n, 0) ELSE Min(start, n)
        e == IF stop < 0 THEN Max(stop + n, 0) ELSE Min(stop, n)
    IN  IF s < e THEN SubSeq(a, s + 1, e) ELSE <<>>

\* np.prod: the product of the elements, 1 for none
RECURSIVE np_prod(_)
np_prod(a) == IF a = <<>> THEN 1 ELSE Head(a) * np_prod(Tail(a))

\* the sum of the elements
RECURSIVE SeqSum(_)
SeqSum(a) == IF a = <<>> THEN 0 ELSE Head(a) + SeqSum(Tail(a))

\* x put in its place in the ascending sequence s
RECURSIVE Insert(_, _)
Insert(x, s) ==
    IF s = <<>> THEN <<x>>
    ELSE IF x <= Head(s) THEN <<x>> \o s
    ELSE <<Head(s)>> \o Insert(x, Tail(s))

\* the sort np.percentile does
RECURSIVE Sorted(_)
Sorted(a) == IF a = <<>> THEN <<>> ELSE Insert(Head(a), Sorted(Tail(a)))

\* returns_1day += 1 (line 39): one is added to every element, in place
\* (AddOneMissing: the faulty variant without the addition)
AddOneMissing(a) == a
AddOne(a) == [k \in 1..Len(a) |-> a[k] + 1]

\* np.array(returns_ndays) - 1 (line 45)
SubOne(a) == [k \in 1..Len(a) |-> a[k] - 1]

(***************************************************************************)
(* class Returns                                                           *)
(***************************************************************************)
\* Returns.__init__: the arguments are stored as they are
Returns_init(n, d) == [num_observations |-> n, ndays |-> d]

\* The values one levy_stable.rvs call can give: every series of `size`
\* values (the stable distribution has the whole real line as support).
DrawValues(m) == IF m = "get_percentile" THEN {-2, -1, 0, 1} ELSE {0, 1}

generate_1day_returns(self, m) ==
    [1..self.num_observations -> DrawValues(m)]

\* the loop of generate_ndays_returns (lines 42-44), from index k on
RECURSIVE NdaysLoop(_, _, _, _, _)
NdaysLoop(r1, d, k, num, acc) ==
    IF k >= num THEN acc
    ELSE NdaysLoop(r1, d, k + 1, num,
                   Append(acc, np_prod(PySlice(r1, k, k + d))))

\* the number of n-days returns (line 41)
\* (num_returns_ndays_short: the faulty variant that is one short)
num_returns_ndays_short(r1, d) == Len(r1) - d
num_returns_ndays(r1, d) == Len(r1) - d + 1

\* generate_ndays_returns on the drawn series: its locals at the return
generate_ndays_returns(self, drawn) ==
    LET r1 == AddOne(drawn)
        num == num_returns_ndays(r1, self.ndays)
    IN  [returns_1day |-> r1,
         returns_ndays |-> SubOne(NdaysLoop(r1, self.ndays, 0, num, <<>>))]

\* np.percentile(a, q_value) with q_value = 0.01, linear interpolation,
\* in units of 1/PercentileDen.  On an empty series numpy raises IndexError
\* or gives nan, depending on its version: both outcomes.
np_percentile(a) ==
    IF a = <<>>
    THEN {[raised |-> TRUE, value |-> NaN], [raised |-> FALSE, value |-> NaN]}
    ELSE LET s == Sorted(a)
             n == Len(s)
             lo == (n - 1) \div PercentileDen
             fr == (n - 1) % PercentileDen
             hi == Min(lo + 1, n - 1)
         IN  {[raised |-> FALSE,
               value |-> Num(PercentileDen * s[lo + 1]
                             + fr * (s[hi + 1] - s[lo + 1]))]}

\* get_percentile on the drawn series: the locals and the possible outcomes
get_percentile(self, drawn) ==
    LET g == generate_ndays_returns(self, drawn)
    IN  {[returns_1day |-> g.returns_1day, returns_ndays |-> g.returns_ndays,
          raised |-> o.raised, value |-> o.value] :
            o \in np_percentile(g.returns_ndays)}


\* np.mean of a list of percentiles, as an unreduced fraction
np_mean(a) ==
    IF a = <<>> \/ \E k \in 1..Len(a) : a[k].nan THEN FracNaN
    ELSE Frac(SeqSum([k \in 1..Len(a) |-> a[k].v]), Len(a))

\* np.std of a list of percentiles, squared (the square root is not
\* rational): the variance as an unreduced fraction
np_var(a) ==
    IF a = <<>> \/ \E k \in 1..Len(a) : a[k].nan THEN FracNaN
    ELSE LET s1 == SeqSum([k \in 1..Len(a) |-> a[k].v])
             s2 == SeqSum([k \in 1..Len(a) |-> a[k].v * a[k].v])
         IN  Frac(Len(a) * s2 - s1 * s1, Len(a) * Len(a))

(***************************************************************************)
(* The inputs explored.                                                    *)
(***************************************************************************)
Methods == {"get_percentile", "simulate_monte_carlo", "CLT", "monitoring",
            "test_statistic"}

\* <<num_observations, ndays>> for the three procedures of
\* check_monte_carlo_trials: a valid pair, one with ndays < 1 and one with
\* num_observations < ndays
LoopConfigs == {<<1, 1>>, <<0, 0>>, <<1, 2>>}

\* <<num_observations, ndays>> for the test-statistic procedure: a valid
\* pair and one with ndays < 1.  A pair with num_observations < ndays is
\* left to the other entry points: its percentiles are nan, and what
\* ks_2samp makes of nan differs between scipy versions.
TestStatisticConfigs == {<<1, 1>>, <<0, 0>>}

\* <<significance_level, discrepancy>>, in halves: 0.5 and 0.5; a
\* discrepancy of 0, which no statistic of two different samples meets; a
\* significance level of 0, which every p-value meets; a discrepancy of
\* 10e8, which every statistic meets, the initial one too
Thresholds == {<<1, 1>>, <<1, 0>>, <<0, 1>>, <<1, STATISTIC_INIT>>,
               <<0, STATISTIC_INIT>>}
BaseThresholds == <<1, 1>>

\* ks_2samp is scipy's: of two samples of numbers it gives a statistic and a
\* p-value in [0, 1].  In halves: a statistic of 0.5 or 1 with a p-value of
\* 0 or 0.5.
KsResults == {<<1, 0>>, <<1, 1>>, <<2, 0>>, <<2, 1>>}

\* the arguments <<num_observations, ndays>> are c, the thresholds are t
Args(c, t) ==
    /\ num_observations = c[1]
    /\ ndays = c[2]
    /\ significance_level = t[1]
    /\ discrepancy = t[2]

Init ==
    /\ method \in Methods
    /\ \/ /\ method \in {"get_percentile", "simulate_monte_carlo"}
          /\ \E n \in 0..MaxObs, d \in (0 - MinusNdays)..MaxNdays :
                Args(<<n, d>>, BaseThresholds)
       \/ /\ method \in {"CLT", "monitoring"}
          /\ \E c \in LoopConfigs : Args(c, BaseThresholds)
       \/ /\ method = "test_statistic"
          /\ \/ \E t \in Thresholds : Args(<<1, 1>>, t)
             \/ \E c \in TestStatisticConfigs : Args(c, BaseThresholds)
    /\ trials_arg \in IF method = "simulate_monte_carlo"
                      THEN (0 - 1)..MaxSimTrials ELSE {0}
    /\ pc = "start"
    /\ returns = <<>>
    /\ stream = <<>>
    /\ calls = 0
    /\ returns_1day = <<>>
    /\ returns_ndays = <<>>
    /\ i = 0
    /\ percentiles = <<>>
    /\ samples = 0
    /\ percentile = <<>>
    /\ mean = <<>>
    /\ std = <<>>
    /\ trial = 0
    /\ mean_perc = <<>>
    /\ trials_list = <<>>
    /\ trials = 0
    /\ p_value = 0
    /\ statistic = 0
    /\ p_list1 = <<>>
    /\ p_list2 = <<>>
    /\ plt = <<>>
    /\ stdout = <<>>
    /\ result = <<>>
    /\ exc = ""

\* the Returns object the entry point works on
Obj == returns[1]

\* k calls of returns.get_percentile() that drew `drawn` in all, the last
\* with outcome o: what they leave in the Returns locals and in the random
\* stream
Call(drawn, o, k) ==
    /\ stream' = stream \o drawn
    /\ calls' = calls + k
    /\ returns_1day' = o.returns_1day
    /\ returns_ndays' = o.returns_ndays

\* the exception of np.percentile leaves the entry point
Raise ==
    /\ exc' = "IndexError"
    /\ pc' = "raised"

(***************************************************************************)
(* Returns(num_observations, ndays).get_percentile()                       *)
(***************************************************************************)
GP_Construct ==
    /\ method = "get_percentile"
    /\ pc = "start"
    /\ returns' = <<Returns_init(num_observations, ndays)>>
    /\ pc' = "gp_call"
    /\ UNCHANGED <<inputs, retVars, i, percentiles, cltVars, monVars, tsVars,
                   plt, stdout, result, exc>>

GP_Call ==
    /\ pc = "gp_call"
    /\ \E drawn \in generate_1day_returns(Obj, method) :
         \E o \in get_percentile(Obj, drawn) :
            /\ Call(drawn, o, 1)
            /\ IF o.raised
               THEN Raise /\ UNCHANGED result
               ELSE /\ result' = <<o.value>>
                    /\ pc' = "returned"
                    /\ UNCHANGED exc
    /\ UNCHANGED <<inputs, returns, i, percentiles, cltVars, monVars, tsVars,
                   plt, stdout>>

(***************************************************************************)
(* simulate_monte_carlo                                                    *)
(***************************************************************************)
\* percentiles.append(...) (line 90)
\* (percentiles_prepend: the faulty variant that inserts at the front)
percentiles_prepend(a, x) == <<x>> \o a
percentiles_append(a, x) == Append(a, x)

Sim_Start ==
    /\ method = "simulate_monte_carlo"
    /\ pc = "start"
    /\ returns' = <<Returns_init(num_observations, ndays)>>
    /\ percentiles' = <<>>
    /\ i' = 0
    /\ pc' = "sim_for"
    /\ UNCHANGED <<inputs, retVars, cltVars, monVars, tsVars, plt, stdout,
                   result, exc>>

\* one iteration of `for i in range(trials)`
Sim_Iter ==
    /\ pc = "sim_for"
    /\ i < trials_arg
    /\ \E drawn \in generate_1day_returns(Obj, method) :
         \E o \in get_percentile(Obj, drawn) :
            /\ Call(drawn, o, 1)
            /\ IF o.raised
               THEN Raise /\ UNCHANGED <<percentiles, i>>
               ELSE /\ percentiles' = percentiles_append(percentiles, o.value)
                    /\ i' = i + 1
                    /\ UNCHANGED <<pc, exc>>
    /\ UNCHANGED <<inputs, returns, cltVars, monVars, tsVars, plt, stdout,
                   result>>

Sim_Return ==
    /\ pc = "sim_for"
    /\ i >= trials_arg
    /\ result' = <<percentiles>>
    /\ pc' = "returned"
    /\ UNCHANGED <<inputs, returns, retVars, i, percentiles, cltVars, monVars,
                   tsVars, plt, stdout, exc>>

(***************************************************************************)
(* check_monte_carlo_trials, method 'CLT'                                  *)
(***************************************************************************)
\* the figure of the CLT procedure (lines 127-132)
\* (CLT_render_plot: the faulty variant that draws a line plot)
CLT_render_plot(p) == p \o <<"plot", "title", "xlabel", "ylabel", "show">>
CLT_render(p) == p \o <<"hist", "title", "xlabel", "ylabel", "show">>

CLT_Start ==
    /\ method = "CLT"
    /\ pc = "start"
    /\ returns' = <<Returns_init(num_observations, ndays)>>
    /\ std' = <<>>
    /\ mean' = <<>>
    /\ samples' = 0
    /\ pc' = "clt_while"
    /\ UNCHANGED <<inputs, retVars, i, percentiles, percentile, monVars,
                   tsVars, plt, stdout, result, exc>>

\* `while samples < MAX_SAMPLES`: the loop is entered
CLT_While ==
    /\ pc = "clt_while"
    /\ samples < MAX_SAMPLES
    /\ samples' = samples + 1
    /\ percentile' = <<>>
    /\ i' = 0
    /\ pc' = "clt_for"
    /\ UNCHANGED <<inputs, returns, retVars, percentiles, mean, std, monVars,
                   tsVars, plt, stdout, result, exc>>

\* one iteration of `for i in range(MAX_TRIALS)`
CLT_For ==
    /\ pc = "clt_for"
    /\ i < CLT_MAX_TRIALS
    /\ \E drawn \in generate_1day_returns(Obj, method) :
         \E o \in get_percentile(Obj, drawn) :
            /\ Call(drawn, o, 1)
            /\ IF o.raised
               THEN Raise /\ UNCHANGED <<percentile, i>>
               ELSE /\ percentile' = Append(percentile, o.value)
                    /\ i' = i + 1
                    /\ UNCHANGED <<pc, exc>>
    /\ UNCHANGED <<inputs, returns, percentiles, samples, mean, std, monVars,
                   tsVars, plt, stdout, result>>

\* the for loop is over: the mean and the deviation are recorded
CLT_EndFor ==
    /\ pc = "clt_for"
    /\ i >= CLT_MAX_TRIALS
    /\ mean' = Append(mean, np_mean(percentile))
    /\ std' = Append(std, np_var(percentile))
    /\ pc' = "clt_while"
    /\ UNCHANGED <<inputs, returns, retVars, i, percentiles, samples,
                   percentile, monVars, tsVars, plt, stdout, result, exc>>

\* the while loop is over: the histogram is drawn, then the return
CLT_Plot ==
    /\ pc = "clt_while"
    /\ samples >= MAX_SAMPLES
    /\ plt' = CLT_render(plt)
    /\ result' = <<mean, CLT_MAX_TRIALS>>
    /\ pc' = "returned"
    /\ UNCHANGED <<inputs, returns, retVars, i, percentiles, cltVars, monVars,
                   tsVars, stdout, exc>>

(***************************************************************************)
(* check_monte_carlo_trials, method 'monitoring'                           *)
(***************************************************************************)
\* the figure of the monitoring procedure (lines 147-152)
Mon_render(p) ==
    p \o <<"plot", "title", "xlabel", "ylabel", "legend", "show">>

Mon_Start ==
    /\ method = "monitoring"
    /\ pc = "start"
    /\ returns' = <<Returns_init(num_observations, ndays)>>
    /\ mean_perc' = <<>>
    /\ percentiles' = <<>>
    /\ trial' = 0
    /\ trials_list' = <<>>
    /\ pc' = "mon_while"
    /\ UNCHANGED <<inputs, retVars, i, cltVars, tsVars, plt, stdout, result,
                   exc>>

\* one iteration of `while trial < MAX_TRIALS`
Mon_Iter ==
    /\ pc = "mon_while"
    /\ trial < MON_MAX_TRIALS
    /\ \E drawn \in generate_1day_returns(Obj, method) :
         \E o \in get_percentile(Obj, drawn) :
            /\ Call(drawn, o, 1)
            /\ trial' = trial + 1
            /\ IF o.raised
               THEN Raise /\ UNCHANGED <<percentiles, mean_perc, trials_list>>
               ELSE /\ percentiles' = Append(percentiles, o.value)
                    /\ mean_perc' = Append(mean_perc, np_mean(percentiles'))
                    /\ trials_list' = Append(trials_list, trial')
                    /\ UNCHANGED <<pc, exc>>
    /\ UNCHANGED <<inputs, returns, i, cltVars, tsVars, plt, stdout, result>>

Mon_Plot ==
    /\ pc = "mon_while"
    /\ trial >= MON_MAX_TRIALS
    /\ plt' = Mon_render(plt)
    /\ result' = <<mean_perc, trials_list>>
    /\ pc' = "returned"
    /\ UNCHANGED <<inputs, returns, retVars, i, percentiles, cltVars, monVars,
                   tsVars, stdout, exc>>

(***************************************************************************)
(* check_monte_carlo_trials, method 'test_statistic'                       *)
(***************************************************************************)
\* the condition of the while loop (line 161)
\* (LoopCondAnd: the faulty variant with `and`)
LoopCondAnd(s, d, p, sl) == (s > d) /\ (p < sl)
LoopCond(s, d, p, sl) == (s > d) \/ (p < sl)

\* `if trials % 100 == 0` (line 166)
\* (BatchCheckAlways: the faulty variant that tests at every trial)
BatchCheckAlways(t) == TRUE
BatchCheck(t) == t % BATCH = 0

\* `if trials > 200000` (line 175)
\* (CapReached: the variant with >=)
CapReached(t) == t >= MAX_TRIALS_CAP
CapExceeded(t) == t > MAX_TRIALS_CAP

\* ks_2samp(p_list1, p_list2) (line 172): the <<statistic, p_value>> pairs
\* it may give
ks_2samp(a, b) == KsResults

\* the two lines the procedure prints
StatisticLine(s, p, t) ==
    [text |-> "Statistic: %f, P-value: %f, Trials: %d",
     statistic |-> s, p_value |-> p, trials |-> t]
FailedLine == [text |-> "Simulation failed!",
               statistic |-> 0, p_value |-> 0, trials |-> 0]

\* `percentiles = p_list1 + p_list2` (line 180)
\* (ConcatSecondOnly: the faulty variant p_list2 + p_list2)
ConcatSecondOnly(a, b) == b \o b
Concat(a, b) == a \o b

\* p_list2.append(...) (line 164)
\* (AppendDropped: the faulty variant that appends nothing)
AppendDropped(a, x) == a
Append2(a, x) == Append(a, x)

TS_Start ==
    /\ method = "test_statistic"
    /\ pc = "start"
    /\ returns' = <<Returns_init(num_observations, ndays)>>
    /\ trials' = 0
    /\ p_value' = P_VALUE_INIT
    /\ statistic' = STATISTIC_INIT
    /\ p_list1' = <<>>
    /\ p_list2' = <<>>
    /\ pc' = "ts_while"
    /\ UNCHANGED <<inputs, retVars, i, percentiles, cltVars, monVars, plt,
                   stdout, result, exc>>

\* the rest of an iteration once both percentiles are appended: the batch
\* check and the cap (lines 166-177)
TS_Checks(ks) ==
    /\ IF BatchCheck(trials')
       THEN /\ statistic' = ks[1]
            /\ p_value' = ks[2]
       ELSE UNCHANGED <<statistic, p_value>>
    /\ stdout' = stdout
          \o (IF BatchCheck(trials')
              THEN <<StatisticLine(statistic', p_value', trials')>>
              ELSE <<>>)
          \o (IF CapExceeded(trials') THEN <<FailedLine>> ELSE <<>>)
    /\ pc' = IF CapExceeded(trials') THEN "ts_after" ELSE "ts_while"
    /\ UNCHANGED exc

\* one iteration of the while loop (lines 161-177); an exception of
\* get_percentile leaves the procedure
TS_Iter ==
    /\ pc = "ts_while"
    /\ LoopCond(statistic, discrepancy, p_value, significance_level)
    /\ trials' = trials + 1
    /\ \E d1 \in generate_1day_returns(Obj, method) :
         \E o1 \in get_percentile(Obj, d1) :
            IF o1.raised
            THEN /\ Call(d1, o1, 1)
                 /\ Raise
                 /\ UNCHANGED <<p_list1, p_list2, statistic, p_value, stdout>>
            ELSE /\ p_list1' = Append(p_list1, o1.value)
                 /\ \E d2 \in generate_1day_returns(Obj, method) :
                      \E o2 \in get_percentile(Obj, d2) :
                         /\ Call(d1 \o d2, o2, 2)
                         /\ IF o2.raised
                            THEN /\ Raise
                                 /\ UNCHANGED <<p_list2, statistic, p_value,
                                                stdout>>
                            ELSE /\ p_list2' = Append2(p_list2, o2.value)
                                 /\ \E ks \in ks_2samp(p_list1', p_list2') :
                                       TS_Checks(ks)
    /\ UNCHANGED <<inputs, returns, i, percentiles, cltVars, monVars, plt,
                   result>>

\* the condition of the while loop is false: the loop is left
TS_Exit ==
    /\ pc = "ts_while"
    /\ ~LoopCond(statistic, discrepancy, p_value, significance_level)
    /\ pc' = "ts_after"
    /\ UNCHANGED <<inputs, returns, retVars, i, percentiles, cltVars, monVars,
                   tsVars, plt, stdout, result, exc>>

\* lines 180-181
TS_Return ==
    /\ pc = "ts_after"
    /\ percentiles' = Concat(p_list1, p_list2)
    /\ result' = <<percentiles', trials>>
    /\ pc' = "returned"
    /\ UNCHANGED <<inputs, returns, retVars, i, cltVars, monVars, tsVars, plt,
                   stdout, exc>>

(***************************************************************************)
(* The script (lines 184-185): the result of the test-statistic procedure  *)
(* is handed to visualize_distribution.                                    *)
(***************************************************************************)
visualize_distribution(p) ==
    p \o <<"figure", "title", "xlabel", "ylabel", "hist", "show">>

Main_Visualize ==
    /\ method = "test_statistic"
    /\ pc = "returned"
    /\ plt' = visualize_distribution(plt)
    /\ pc' = "visualized"
    /\ UNCHANGED <<inputs, returns, retVars, i, percentiles, cltVars, monVars,
                   tsVars, stdout, result, exc>>

Next ==
    \/ GP_Construct
    \/ GP_Call
    \/ Sim_Start
    \/ Sim_Iter
    \/ Sim_Return
    \/ CLT_Start
    \/ CLT_While
    \/ CLT_For
    \/ CLT_EndFor
    \/ CLT_Plot
    \/ Mon_Start
    \/ Mon_Iter
    \/ Mon_Plot
    \/ TS_Start
    \/ TS_Iter
    \/ TS_Exit
    \/ TS_Return
    \/ Main_Visualize

Spec == Init /\ [][Next]_vars

(***************************************************************************)
(* Vocabulary of the properties.                                           *)
(***************************************************************************)
\* the test-statistic procedure has left its while loop
TsLeft ==
    /\ method = "test_statistic"
    /\ pc \in {"ts_after", "returned", "visualized"}

\* the test-statistic procedure has returned
TsReturned ==
    /\ method = "test_statistic"
    /\ pc \in {"returned", "visualized"}

\* the hard cap was hit: the loop was left by its break, which prints
CapHit == stdout # <<>> /\ stdout[Len(stdout)] = FailedLine

\* the lines printed at the batch checks, in order
StatLines == SelectSeq(stdout, LAMBDA l : l # FailedLine)

\* the most recently computed <<statistic, p_value>>
LastPair ==
    IF StatLines = <<>> THEN <<STATISTIC_INIT, P_VALUE_INIT>>
    ELSE <<StatLines[Len(StatLines)].statistic,
           StatLines[Len(StatLines)].p_value>>

\* the pair <<s, p>> satisfies the stopping condition
Stops(s, p) == s <= discrepancy /\ p >= significance_level

\* the stopping condition was satisfied at no batch check
NeverSatisfied ==
    \A k \in 1..Len(StatLines) :
        ~Stops(StatLines[k].statistic, StatLines[k].p_value)

\* the k-th series of num_observations values drawn from the random stream
Block(k) ==
    SubSeq(stream, (k - 1) * num_observations + 1, k * num_observations)

\* the series the last get_percentile call drew
Drawn == SubSeq(stream, Len(stream) - num_observations + 1, Len(stream))

\* the percentile of the n-days returns of the drawn series r, when there
\* is one
PercentileOf(r) ==
    {o.value : o \in {x \in get_percentile(Obj, r) : ~x.raised}}

\* (1 + r[lo]) * ... * (1 + r[hi]), indices from 1
RECURSIVE WindowProduct(_, _, _)
WindowProduct(r, lo, hi) ==
    IF lo > hi THEN 1 ELSE (1 + r[lo]) * WindowProduct(r, lo + 1, hi)

\* the configurations the specification calls invalid
InvalidConfig ==
    \/ ndays < 1
    \/ num_observations < ndays
    \/ method = "simulate_monte_carlo" /\ trials_arg < 1

\* the entry point is over: it has returned or an exception has left it
Over == pc \in {"returned", "visualized", "raised"}

(***************************************************************************)
(* C1.  In the test-statistic procedure the loop goes on while             *)
(* statistic > discrepancy or p_value < significance_level, and whenever   *)
(* the loop is left without the hard cap having been hit, the most         *)
(* recently computed pair has statistic <= discrepancy and                 *)
(* p_value >= significance_level.                                          *)
(***************************************************************************)
C1_Step ==
    (method = "test_statistic" /\ pc = "ts_while")
      => IF statistic > discrepancy \/ p_value < significance_level
         THEN /\ trials' = trials + 1
              /\ calls' > calls
              /\ pc' \in {"ts_while", "raised"} \/ CapHit'
         ELSE /\ pc' = "ts_after"
              /\ UNCHANGED <<trials, calls, stdout>>

C1_Left ==
    (TsLeft /\ ~CapHit)
      => /\ <<statistic, p_value>> = LastPair
         /\ LastPair[1] <= discrepancy
         /\ LastPair[2] >= significance_level

C1_StopOnlyWhenBothPass == [][C1_Step]_vars /\ []C1_Left

\* the loop went on after a first batch check that failed and was left, not
\* by the cap, at the second
C1_Witness ==
    /\ TsReturned
    /\ ~CapHit
    /\ Len(StatLines) = 2
    /\ ~Stops(StatLines[1].statistic, StatLines[1].p_value)

(***************************************************************************)
(* C2.  The test-statistic procedure ends with a trial count that is never *)
(* above the hard cap, and with exactly the hard cap when the stopping     *)
(* condition was satisfied at no batch check.                              *)
(***************************************************************************)
C2_EndsExactlyAtCap ==
    TsReturned
      => /\ trials <= MAX_TRIALS_CAP
         /\ (NeverSatisfied /\ ~Stops(STATISTIC_INIT, P_VALUE_INIT))
              => trials = MAX_TRIALS_CAP

C4_InvalidConfigurationRejected ==
    InvalidConfig
      => /\ stream = <<>>
         /\ result = <<>>
         /\ Over => exc = "InvalidConfiguration"

(***************************************************************************)
(* C5.  For ndays >= 1 and a 1-day series of length L the n-days series    *)
(* generate_ndays_returns produces has length max(0, L - ndays + 1); with  *)
(* ndays > L it is empty, and then an exception can come from the          *)
(* percentile only, after the compounding has produced the empty series.   *)
(***************************************************************************)
C5_NdaysLength ==
    (calls > 0 /\ ndays >= 1)
      => /\ Len(returns_1day) = Len(Drawn)
         /\ Len(returns_ndays) = Max(0, Len(Drawn) - ndays + 1)
         /\ ndays > Len(Drawn) => returns_ndays = <<>>
         /\ exc # "" => (exc = "IndexError" /\ returns_ndays = <<>>)

C5_Witness ==
    /\ calls > 0
    /\ ndays >= 1
    /\ Len(Drawn) >= 1
    /\ ndays > Len(Drawn)
    /\ returns_ndays = <<>>
    /\ pc = "returned"

C7_OnePercentilePerFreshDraw ==
    (method = "simulate_monte_carlo" /\ pc = "returned" /\ trials_arg >= 0)
      => /\ result = <<percentiles>>
         /\ Len(result[1]) = trials_arg
         /\ calls = trials_arg
         /\ Len(stream) = trials_arg * num_observations
         /\ \A k \in 1..trials_arg : result[1][k] \in PercentileOf(Block(k))

C7_Witness ==
    /\ method = "simulate_monte_carlo"
    /\ pc = "returned"
    /\ trials_arg = 2
    /\ num_observations = 2
    /\ result[1][1] # result[1][2]

C9_TwoListsOnePerTrial ==
    /\ (method = "test_statistic"
           /\ pc \in {"ts_while", "ts_after", "returned", "visualized"})
         => /\ Len(p_list1) = trials
            /\ Len(p_list2) = trials
            /\ calls = 2 * trials
    /\ (method = "test_statistic" /\ pc \in {"ts_while", "ts_after"})
         => \A k \in 1..trials :
                  /\ p_list1[k] \in PercentileOf(Block(2 * k - 1))
                  /\ p_list2[k] \in PercentileOf(Block(2 * k))
    /\ TsReturned
         => /\ Len(result[1]) = 2 * trials
            /\ SubSeq(result[1], 1, trials) = p_list1
            /\ SubSeq(result[1], trials + 1, 2 * trials) = p_list2
            /\ result[2] = trials

C9_Witness ==
    /\ TsReturned
    /\ trials = 2 * BATCH
    /\ p_list1 # p_list2

(***************************************************************************)
(* C10.  In the test-statistic procedure statistic and p_value change only *)
(* in an iteration whose trial count is a multiple of the batch size.      *)
(* With discrepancy <= 1 and significance_level > 0 the loop is not left   *)
(* before a whole batch of trials, and a run that the stopping condition   *)
(* ends has a trial count that is a positive multiple of the batch size    *)
(* and at most the hard cap.                                               *)
(***************************************************************************)
C10_ChangeAtBatch ==
    (pc = "ts_while" /\ (statistic' # statistic \/ p_value' # p_value))
      => trials' % BATCH = 0

C10_StopAtBatch ==
    (TsLeft /\ discrepancy <= 2 /\ significance_level > 0)
      => /\ trials >= BATCH
         /\ ~CapHit => /\ trials > 0
                       /\ trials % BATCH = 0
                       /\ trials <= MAX_TRIALS_CAP

C10_BatchBoundaries == [][C10_ChangeAtBatch]_vars /\ []C10_StopAtBatch

C10_Witness ==
    /\ TsReturned
    /\ ~CapHit
    /\ discrepancy <= 2
    /\ significance_level > 0
    /\ trials = 2 * BATCH

=============================================================================
